---------------------------- MODULE Spec2Model ----------------------------
(***************************************************************************)
(* A model of @wymp/config-node (src/src/index.ts): config() and its       *)
(* helpers inflateSecretsDir, _configFromEnv, interpret and nativize.      *)
(*                                                                         *)
(* JavaScript strings are sequences of one-character strings, so that the  *)
(* regular expressions, String.prototype.split, parseInt, Number and the   *)
(* default Array.prototype.sort are computed character by character.       *)
(* JavaScript values are tagged records:                                   *)
(*   [t |-> "number", n |-> i]   an integer number (-0 is identified with  *)
(*                               0: the two are === and print alike)       *)
(*   [t |-> "number", nan |-> TRUE]                       the number NaN   *)
(*   [t |-> "string", s |-> chars]  [t |-> "boolean", b |-> TRUE/FALSE]    *)
(*   [t |-> "null"]  [t |-> "undefined"]                                   *)
(*   [t |-> "object", kv |-> [own property names -> values]]               *)
(*   [t |-> "array",  el |-> <<values>>]                                   *)
(***************************************************************************)
EXTENDS Integers, Sequences, FiniteSets

VARIABLES
    pc,          \* position of the call being modelled
    ns,          \* config(): ns
    delimiter,   \* config(): delimiter
    src,         \* config(): src (env, defaultsFile, localsFile, secretsDir)
    fs,          \* the file system the call reads
    vals,        \* config(): const vals = [...]
    config,      \* config(): const config = deepmerge(...)
    outcome,     \* what the call did: returned a value or threw one
    raw,         \* interpret()/nativize(): the raw string value
    value,       \* interpret(): const value
    flat,        \* _configFromEnv(): const flat
    env,         \* inflateSecretsDir(): const env; _configFromEnv(): env
    checked      \* what validator.check did when it was called

vars == <<pc, ns, delimiter, src, fs, vals, config, outcome, raw, value, flat,
          env, checked>>

(***************************************************************************)
(* Strings                                                                 *)
(***************************************************************************)

\* UTF-16 code units of the characters the model uses (the order of
\* Array.prototype.sort() without a comparator).
Code(c) ==
    CASE c = "\n" -> 10 [] c = " " -> 32 [] c = "-" -> 45
      [] c = "0" -> 48 [] c = "1" -> 49 [] c = "2" -> 50 [] c = "3" -> 51
      [] c = "4" -> 52 [] c = "5" -> 53 [] c = "6" -> 54 [] c = "7" -> 55
      [] c = "8" -> 56 [] c = "9" -> 57 [] c = "<" -> 60 [] c = ">" -> 62
      [] c = "A" -> 65 [] c = "M" -> 77 [] c = "N" -> 78 [] c = "P" -> 80
      [] c = "_" -> 95 [] c = "a" -> 97 [] c = "b" -> 98 [] c = "d" -> 100
      [] c = "e" -> 101 [] c = "f" -> 102 [] c = "g" -> 103 [] c = "i" -> 105
      [] c = "l" -> 108 [] c = "m" -> 109 [] c = "n" -> 110 [] c = "o" -> 111
      [] c = "p" -> 112 [] c = "q" -> 113 [] c = "r" -> 114 [] c = "s" -> 115
      [] c = "t" -> 116 [] c = "u" -> 117 [] c = "x" -> 120

Digits == {"0", "1", "2", "3", "4", "5", "6", "7", "8", "9"}

DigitVal(c) == Code(c) - 48

\* ECMAScript WhiteSpace and LineTerminator characters of the model's alphabet.
WhiteSpace == {" ", "\n"}

\* LineTerminator: the characters the regular expression atom `.` refuses.
LineTerminators == {"\n"}

StartsWith(s, p) == Len(s) >= Len(p) /\ SubSeq(s, 1, Len(p)) = p

Drop(s, n) == SubSeq(s, n + 1, Len(s))

\* a < b in the order of sort(): by code unit, a proper prefix first.
RECURSIVE StrLess(_, _)
StrLess(a, b) ==
    IF b = <<>> THEN FALSE
    ELSE IF a = <<>> THEN TRUE
    ELSE IF a[1] # b[1] THEN Code(a[1]) < Code(b[1])
    ELSE StrLess(Tail(a), Tail(b))

RECURSIVE TrimLeft(_)
TrimLeft(s) ==
    IF s # <<>> /\ s[1] \in WhiteSpace THEN TrimLeft(Tail(s)) ELSE s

RECURSIVE TrimRight(_)
TrimRight(s) ==
    IF s # <<>> /\ s[Len(s)] \in WhiteSpace
    THEN TrimRight(SubSeq(s, 1, Len(s) - 1)) ELSE s

\* The number of leading decimal digits of s.
RECURSIVE LeadingDigits(_)
LeadingDigits(s) ==
    IF s # <<>> /\ s[1] \in Digits THEN 1 + LeadingDigits(Tail(s)) ELSE 0

\* The value of a non-empty sequence of decimal digits.
RECURSIVE DecValue(_)
DecValue(ds) ==
    IF ds = <<>> THEN 0
    ELSE 10 * DecValue(SubSeq(ds, 1, Len(ds) - 1)) + DigitVal(ds[Len(ds)])

DigitChar(d) == CHOOSE c \in Digits : DigitVal(c) = d

RECURSIVE NatToStr(_)
NatToStr(n) ==
    IF n < 10 THEN <<DigitChar(n)>>
    ELSE NatToStr(n \div 10) \o <<DigitChar(n % 10)>>

(***************************************************************************)
(* JavaScript values                                                       *)
(***************************************************************************)

Num(i) == [t |-> "number", n |-> i]
NaN == [t |-> "number", nan |-> TRUE]
Str(s) == [t |-> "string", s |-> s]
Bool(b) == [t |-> "boolean", b |-> b]
Null == [t |-> "null"]
Undefined == [t |-> "undefined"]
Obj(kv) == [t |-> "object", kv |-> kv]
Arr(el) == [t |-> "array", el |-> el]
EmptyObj == Obj(<<>>)

IsNaN(v) == v.t = "number" /\ "nan" \in DOMAIN v

\* parseInt(v) with no radix, on strings without a 0x prefix (x is not a
\* character of any value the model draws): leading white space is skipped,
\* a sign is read, then the longest run of decimal digits; none gives NaN.
parseInt(v) ==
    LET s == TrimLeft(v)
        signed == s # <<>> /\ s[1] = "-"
        body == IF signed THEN Tail(s) ELSE s
        k == LeadingDigits(body)
        mag == DecValue(SubSeq(body, 1, k))
    IN  IF k = 0 THEN NaN ELSE Num(IF signed THEN 0 - mag ELSE mag)

\* `${x}` for a number x: Number::toString.
NumberToString(x) ==
    IF IsNaN(x) THEN <<"N", "a", "N">>
    ELSE IF x.n < 0 THEN <<"-">> \o NatToStr(0 - x.n)
    ELSE NatToStr(x.n)

\* Number(v) for a string v (StringToNumber) over the model's alphabet, which
\* has no ".", "e", "x" or "+": white space is trimmed at both ends, the empty
\* string is 0, an optionally signed run of digits is its value, all else NaN.
Number(v) ==
    LET s == TrimRight(TrimLeft(v))
        signed == s # <<>> /\ s[1] = "-"
        body == IF signed THEN Tail(s) ELSE s
    IN  IF s = <<>> THEN Num(0)
        ELSE IF body # <<>> /\ LeadingDigits(body) = Len(body)
        THEN Num(IF signed THEN 0 - DecValue(body) ELSE DecValue(body))
        ELSE NaN

\* Boolean(x): ToBoolean.
Boolean(x) ==
    Bool(~ \/ x.t \in {"null", "undefined"}
           \/ x.t = "boolean" /\ ~x.b
           \/ x.t = "number" /\ (IsNaN(x) \/ x.n = 0)
           \/ x.t = "string" /\ x.s = <<>>)

StrTrue == <<"t", "r", "u", "e">>
StrFalse == <<"f", "a", "l", "s", "e">>
StrNull == <<"n", "u", "l", "l">>

\* index.ts:230-244
nativize(v) ==
    IF NumberToString(parseInt(v)) = v THEN Number(v)
    ELSE IF v = StrTrue THEN Bool(TRUE)
    ELSE IF v = StrFalse THEN Bool(FALSE)
    ELSE IF v = StrNull THEN Null
    ELSE Str(v)

CastNumber == <<"<", "n", "u", "m", "b", "e", "r", ">">>
CastString == <<"<", "s", "t", "r", "i", "n", "g", ">">>
CastBoolean == <<"<", "b", "o", "o", "l", "e", "a", "n", ">">>

\* v.match(/^<(number|string|boolean)>(.*)$/): the tag, or <<>> for no match.
\* `.` matches no line terminator and `$` (no m flag) only the end of input.
CastMatch(v) ==
    LET tags == {c \in {CastNumber, CastString, CastBoolean} : StartsWith(v, c)}
    IN  IF tags = {} THEN <<>>
        ELSE LET tag == CHOOSE c \in tags : TRUE
                 rest == Drop(v, Len(tag))
             IN  IF \E i \in 1..Len(rest) : rest[i] \in LineTerminators
                 THEN <<>> ELSE tag

\* index.ts:181-192, interpret(): const value
castValue(v) ==
    LET tag == CastMatch(v)
        rest == Drop(v, Len(tag))
    IN  IF tag # <<>>
        THEN IF tag = CastNumber THEN Number(rest)
             ELSE IF tag = CastBoolean THEN Boolean(nativize(rest))
             ELSE Str(rest)
        ELSE nativize(v)

(***************************************************************************)
(* _configFromEnv (index.ts:146-162) and interpret (index.ts:172-225)      *)
(***************************************************************************)

Return(v) == [t |-> "return", v |-> v]
Throw(e) == [t |-> "throw", e |-> e]

\* A TypeError raised by the runtime (its message is not modelled).
TypeError == [t |-> "error", name |-> "TypeError"]

\* r is "__" followed by one or more digits: the group (__[0-9]+).
IsVersionSuffix(r) ==
    /\ Len(r) >= 3
    /\ r[1] = "_" /\ r[2] = "_"
    /\ \A i \in 3..Len(r) : r[i] \in Digits

\* The values of env are strings: the undefined values its type allows (on
\* which flat[k].match throws) are not drawn.

\* regexp.test(key) for regexp = new RegExp(`^${ns}(.+?)(__[0-9]+)?$`), ns
\* holding no regular-expression metacharacter: ns, then at least one
\* character, none of them a line terminator.
KeyMatches(key, nsv) ==
    /\ StartsWith(key, nsv)
    /\ Len(key) > Len(nsv)
    /\ \A i \in (Len(nsv) + 1)..Len(key) : key[i] \notin LineTerminators

\* key.replace(regexp, "$1"): group 1 is lazy, so it is the shortest non-empty
\* prefix of the rest that the optional version suffix and `$` can follow.
BaseName(key, nsv) ==
    LET rest == Drop(key, Len(nsv))
        ok == {k \in 1..Len(rest) :
                 Drop(rest, k) = <<>> \/ IsVersionSuffix(Drop(rest, k))}
        n == CHOOSE k \in ok : \A j \in ok : k <= j
    IN  SubSeq(rest, 1, n)

\* Object.keys(env).sort()
RECURSIVE SortKeys(_)
SortKeys(S) ==
    IF S = {} THEN <<>>
    ELSE LET m == CHOOSE x \in S : \A y \in S \ {x} : StrLess(x, y)
         IN  <<m>> \o SortKeys(S \ {m})

\* nm is an array index: the canonical string of a non-negative integer.
\* Object.keys lists such property names first, in ascending numeric order.
IsArrayIndex(nm) ==
    LET x == parseInt(nm)
    IN  ~IsNaN(x) /\ x.n >= 0 /\ NumberToString(x) = nm

\* An object whose property order matters is the sequence of its
\* <<name, value>> pairs in the order of Object.keys. agg[nm] = v:
RECURSIVE SetProperty(_, _, _)
SetProperty(agg, nm, v) ==
    IF agg = <<>> THEN <<<<nm, v>>>>
    ELSE IF agg[1][1] = nm THEN <<<<nm, v>>>> \o Tail(agg)
    ELSE IF /\ IsArrayIndex(nm)
            /\ \/ ~IsArrayIndex(agg[1][1])
               \/ parseInt(nm).n < parseInt(agg[1][1]).n
            /\ \A j \in 1..Len(agg) : agg[j][1] # nm
         THEN <<<<nm, v>>>> \o agg
    ELSE <<agg[1]>> \o SetProperty(Tail(agg), nm, v)

\* index.ts:152-160: the reduce over the sorted keys.
RECURSIVE FlatReduce(_, _, _, _)
FlatReduce(agg, keys, m, nsv) ==
    IF keys = <<>> THEN agg
    ELSE LET cur == keys[1]
         IN  FlatReduce(IF KeyMatches(cur, nsv)
                        THEN SetProperty(agg, BaseName(cur, nsv), m[cur])
                        ELSE agg,
                        Tail(keys), m, nsv)

\* index.ts:151-160: const flat
FlatOf(m, nsv) == FlatReduce(<<>>, SortKeys(DOMAIN m), m, nsv)

\* The position of the first occurrence of d in s at or after i (0: none).
FirstAt(s, d, i) ==
    LET hits == {k \in i..(Len(s) - Len(d) + 1) : SubSeq(s, k, k + Len(d) - 1) = d}
    IN  IF hits = {} THEN 0 ELSE CHOOSE k \in hits : \A j \in hits : k <= j

\* k.split(delimiter)
RECURSIVE Split(_, _)
Split(s, d) ==
    IF d = <<>> THEN [i \in 1..Len(s) |-> <<s[i]>>]
    ELSE LET k == FirstAt(s, d, 1)
         IN  IF k = 0 THEN <<s>>
             ELSE <<SubSeq(s, 1, k - 1)>> \o Split(Drop(s, k + Len(d) - 1), d)

\* typeof path[i]: path is the result of String.prototype.split, whose
\* elements are strings (the numeric `part` is a separate local).
TypeofPathElement(path, i) == "string"

\* index.ts:211-215: the node created for a missing intermediate part.
NewChild(path, i) ==
    IF TypeofPathElement(path, i + 1) = "number" THEN Arr(<<>>) ELSE EmptyObj

\* ChildAt without the hasOwnProperty test of index.ts:208: a node is created
\* for every intermediate part, over the one already there.
ChildAlwaysNew(kv, part, path, i) == NewChild(path, i)

\* index.ts:208-219: the node `current` descends into.
ChildAt(kv, part, path, i) ==
    IF part \in DOMAIN kv THEN kv[part] ELSE NewChild(path, i)

\* index.ts:203: the property name `part` addresses. A part that looks like an
\* integer is made a number, and a number names the property of its string.
PartName(seg) ==
    IF NumberToString(parseInt(seg)) = seg THEN NumberToString(parseInt(seg)) ELSE seg

WithProperty(kv, nm, v) ==
    [k \in DOMAIN kv \cup {nm} |-> IF k = nm THEN v ELSE kv[k]]

\* index.ts:196-220: the walk from `current` = node at path[i]. The module is
\* compiled as an ES module (strict mode): once `current` is a primitive or
\* null, the walk ends in a TypeError, either at hasOwnProperty (null), or at
\* the assignment to a property of a primitive.
RECURSIVE SetPath(_, _, _, _)
SetPath(node, path, i, v) ==
    IF node.t # "object" THEN Throw(TypeError)
    ELSE LET part == PartName(path[i])
         IN  IF i = Len(path) THEN Return(Obj(WithProperty(node.kv, part, v)))
             ELSE LET sub == SetPath(ChildAt(node.kv, part, path, i), path, i + 1, v)
                  IN  IF sub.t = "throw" THEN sub
                      ELSE Return(Obj(WithProperty(node.kv, part, sub.v)))

\* index.ts:177-224: the reduce over Object.keys(flat), from {}.
RECURSIVE InterpretReduce(_, _, _)
InterpretReduce(obj, entries, delim) ==
    IF entries = <<>> \/ obj.t = "throw" THEN obj
    ELSE InterpretReduce(
             SetPath(obj.v, Split(entries[1][1], delim), 1, castValue(entries[1][2])),
             Tail(entries), delim)

interpret(flatv, delim) == InterpretReduce(Return(EmptyObj), flatv, delim)

\* index.ts:146-162
configFromEnv(m, nsv, delim) == interpret(FlatOf(m, nsv), delim)

(***************************************************************************)
(* JSON.parse and JSON.stringify on the documents the model reads and      *)
(* prints: objects, strings without escapes, integers, true, false, null.  *)
(***************************************************************************)

Fail == [ok |-> FALSE]
Parsed(v, next) == [ok |-> TRUE, v |-> v, i |-> next]

RECURSIVE SkipWs(_, _)
SkipWs(s, i) == IF i <= Len(s) /\ s[i] \in WhiteSpace THEN SkipWs(s, i + 1) ELSE i

LiteralAt(s, i, lit) == SubSeq(s, i, i + Len(lit) - 1) = lit

\* The index of the first double quote of s at or after i (0: none).
ClosingQuote(s, i) == FirstAt(s, <<"\"">>, i)

RECURSIVE ParseValue(_, _)
RECURSIVE ParseMembers(_, _, _, _)

\* One JSON value starting at or after s[i].
ParseValue(s, i) ==
    LET j == SkipWs(s, i)
    IN  IF j > Len(s) THEN Fail
        ELSE IF s[j] = "{" THEN ParseMembers(s, j + 1, <<>>, TRUE)
        ELSE IF s[j] = "\"" THEN
            LET k == ClosingQuote(s, j + 1)
            IN  IF k = 0 THEN Fail ELSE Parsed(Str(SubSeq(s, j + 1, k - 1)), k + 1)
        ELSE IF s[j] \in Digits \cup {"-"} THEN
            LET body == Drop(s, IF s[j] = "-" THEN j ELSE j - 1)
                n == LeadingDigits(body)
                mag == DecValue(SubSeq(body, 1, n))
            IN  IF n = 0 \/ (n > 1 /\ body[1] = "0") THEN Fail
                ELSE Parsed(Num(IF s[j] = "-" THEN 0 - mag ELSE mag),
                            (IF s[j] = "-" THEN j + 1 ELSE j) + n)
        ELSE IF LiteralAt(s, j, StrTrue) THEN Parsed(Bool(TRUE), j + 4)
        ELSE IF LiteralAt(s, j, StrFalse) THEN Parsed(Bool(FALSE), j + 5)
        ELSE IF LiteralAt(s, j, StrNull) THEN Parsed(Null, j + 4)
        ELSE Fail

\* The members of an object and its closing brace, s[i] following "{" (first)
\* or "," (not first); kv holds the members read so far.
ParseMembers(s, i, kv, first) ==
    LET j == SkipWs(s, i)
    IN  IF j > Len(s) THEN Fail
        ELSE IF s[j] = "}" THEN (IF first THEN Parsed(Obj(kv), j + 1) ELSE Fail)
        ELSE IF s[j] # "\"" THEN Fail
        ELSE LET k == ClosingQuote(s, j + 1)
                 c == SkipWs(s, k + 1)
             IN  IF k = 0 \/ c > Len(s) \/ s[c] # ":" THEN Fail
                 ELSE LET m == ParseValue(s, c + 1)
                      IN  IF ~m.ok THEN Fail
                          ELSE LET kv2 == WithProperty(kv, SubSeq(s, j + 1, k - 1), m.v)
                                   e == SkipWs(s, m.i)
                               IN  IF e > Len(s) THEN Fail
                                   ELSE IF s[e] = "}" THEN Parsed(Obj(kv2), e + 1)
                                   ELSE IF s[e] = "," THEN ParseMembers(s, e + 1, kv2, FALSE)
                                   ELSE Fail

SyntaxError == [t |-> "error", name |-> "SyntaxError"]

\* JSON.parse(text): the value, or a SyntaxError thrown.
JsonParse(text) ==
    LET r == ParseValue(text, 1)
    IN  IF r.ok /\ SkipWs(text, r.i) > Len(text) THEN Return(r.v) ELSE Throw(SyntaxError)

RECURSIVE Spaces(_)
Spaces(n) == IF n = 0 THEN <<>> ELSE <<" ">> \o Spaces(n - 1)

Quoted(s) == <<"\"">> \o s \o <<"\"">>

\* JSON.stringify(v, null, gap) at indentation ind, gap = 0 for no gap. An
\* object's members are printed in the order of its keys' code units (the
\* objects printed have their properties created in that order).
RECURSIVE Stringify(_, _, _)
RECURSIVE StringifyMembers(_, _, _, _)
Stringify(v, gap, ind) ==
    IF v.t = "object" THEN
        IF DOMAIN v.kv = {} THEN <<"{", "}">>
        ELSE <<"{">> \o StringifyMembers(v.kv, SortKeys(DOMAIN v.kv), gap, ind + gap)
                 \o (IF gap > 0 THEN <<"\n">> \o Spaces(ind) ELSE <<>>) \o <<"}">>
    ELSE IF v.t = "string" THEN Quoted(v.s)
    ELSE IF v.t = "number" THEN (IF IsNaN(v) THEN StrNull ELSE NumberToString(v))
    ELSE IF v.t = "boolean" THEN (IF v.b THEN StrTrue ELSE StrFalse)
    ELSE StrNull

StringifyMembers(kv, keys, gap, ind) ==
    IF keys = <<>> THEN <<>>
    ELSE (IF gap > 0 THEN <<"\n">> \o Spaces(ind) ELSE <<>>)
         \o Quoted(keys[1]) \o <<":">> \o (IF gap > 0 THEN <<" ">> ELSE <<>>)
         \o Stringify(kv[keys[1]], gap, ind)
         \o (IF Len(keys) > 1 THEN <<",">> ELSE <<>>)
         \o StringifyMembers(kv, Tail(keys), gap, ind)

(***************************************************************************)
(* deepmerge of @wymp/weenie-base, which is not part of the sources: the   *)
(* later argument wins per key, nested objects merge recursively, anything *)
(* else is replaced wholesale.                                             *)
(***************************************************************************)

RECURSIVE deepmerge2(_, _)
deepmerge2(a, b) ==
    IF a.t = "object" /\ b.t = "object"
    THEN Obj([k \in DOMAIN a.kv \cup DOMAIN b.kv |->
                IF k \notin DOMAIN b.kv THEN a.kv[k]
                ELSE IF k \notin DOMAIN a.kv THEN b.kv[k]
                ELSE deepmerge2(a.kv[k], b.kv[k])])
    ELSE b

deepmerge(a, b, c, d) == deepmerge2(deepmerge2(deepmerge2(a, b), c), d)

(***************************************************************************)
(* config (index.ts:71-124) and inflateSecretsDir (index.ts:133-139)       *)
(***************************************************************************)

\* An unset option (undefined) and the empty string are the same to the
\* conditions of index.ts:96-105: both are falsy.
Unset == ""

DefaultsPath == "config.json"
LocalsPath == "config.local.json"

\* The process's working directory, as a secretsDir.
Cwd == "."

\* fs.existsSync(path)
ExistsSync(path) ==
    IF path = DefaultsPath THEN fs.defaults.exists
    ELSE IF path = LocalsPath THEN fs.locals.exists
    ELSE IF path = Cwd THEN TRUE
    ELSE fs.secrets.exists

\* fs.readFileSync(path, "utf8") of one of the two JSON files.
ReadFileSync(path) == IF path = DefaultsPath THEN fs.defaults.text ELSE fs.locals.text

\* FileSource without the fs.existsSync test: a path that is set is read.
FileSourceUnchecked(path) ==
    IF path # Unset THEN JsonParse(ReadFileSync(path)) ELSE Return(EmptyObj)

\* index.ts:96-101: one file source.
FileSource(path) ==
    IF path # Unset /\ ExistsSync(path) THEN JsonParse(ReadFileSync(path))
    ELSE Return(EmptyObj)

\* The entries of a directory, name -> text: fs.readdirSync(path) is its DOMAIN.
DirEntries(path) == IF path = Cwd THEN fs.cwd ELSE fs.secrets.files

ENOENT == [t |-> "error", name |-> "ENOENT"]

\* index.ts:133-139. fs.readFileSync(f, "utf8") is given the bare file name
\* f, which the file system resolves against the working directory.
inflateSecretsDir(path) ==
    LET names == DOMAIN DirEntries(path)
    IN  IF \E f \in names : f \notin DOMAIN fs.cwd THEN Throw(ENOENT)
        ELSE Return([f \in names |-> fs.cwd[f]])

\* MergeAll with the env and secrets trees exchanged: the order of the doc
\* comment (index.ts:52), defaultsFile < localsFile < env < secretsDir.
MergeSecretsLast(v) == deepmerge(v[1], v[2], v[4], v[3])

\* index.ts:109
MergeAll(v) == deepmerge(v[1], v[2], v[3], v[4])

StrValidationError == <<"V", "a", "l", "i", "d", "a", "t", "i", "o", "n", "E", "r", "r", "o", "r">>
StrInvalidConfiguration == <<"I", "n", "v", "a", "l", "i", "d", " ", "c", "o", "n", "f", "i", "g", "u", "r", "a", "t", "i", "o", "n", ":", " ">>
StrDetails == <<"\n", "D", "e", "t", "a", "i", "l", "s", ":", " ">>
StrUndefined == <<"u", "n", "d", "e", "f", "i", "n", "e", "d">>
StrObjectObject == <<"[", "o", "b", "j", "e", "c", "t", " ", "O", "b", "j", "e", "c", "t", "]">>

\* A value validator.check throws that is an object with these properties
\* (Undefined: the object has no such property).
Thrown(name, message, key, details) ==
    [t |-> "thrown", name |-> name, message |-> message, key |-> key, details |-> details]

\* new Error(message)
NewError(message) == [t |-> "error", name |-> "Error", message |-> message]

\* `${x}`
TemplateString(x) ==
    IF x.t = "string" THEN x.s
    ELSE IF x.t = "number" THEN NumberToString(x)
    ELSE IF x.t = "boolean" THEN (IF x.b THEN StrTrue ELSE StrFalse)
    ELSE IF x.t = "null" THEN StrNull
    ELSE IF x.t = "undefined" THEN StrUndefined
    ELSE StrObjectObject

\* index.ts:116-119: the message of the error raised for a ValidationError.
InvalidConfigurationMessage(e) ==
    StrInvalidConfiguration
        \o (IF Boolean(e.key).b THEN TemplateString(e.key) \o <<":", " ">> ELSE <<>>)
        \o TemplateString(e.message)
        \o (IF Boolean(e.details).b THEN StrDetails \o Stringify(e.details, 2, 0) ELSE <<>>)

\* index.ts:114-123: the catch block, e the value validator.check threw.
\* Reading e.name of null or undefined raises a TypeError; a primitive has no
\* name property.
CatchBlock(e) ==
    IF e.t \in {"null", "undefined"} THEN Throw(TypeError)
    ELSE LET name == IF e.t = "thrown" THEN e.name ELSE Undefined
         IN  IF Boolean(name).b /\ name = Str(StrValidationError)
             THEN Throw(NewError(InvalidConfigurationMessage(e)))
             ELSE Throw(e)

(***************************************************************************)
(* The value interpreter on its own: interpret()'s cast of one raw value   *)
(* (index.ts:181-192) and nativize() (index.ts:230-244), applied to every  *)
(* raw value of RawValues.                                                 *)
(***************************************************************************)

MaxValueLen == 3

ValueChars == {"0", "5", "-", "N", "a", "\n"}

RECURSIVE StringsUpTo(_, _)
StringsUpTo(chars, n) ==
    IF n = 0 THEN {<<>>}
    ELSE LET shorter == StringsUpTo(chars, n - 1)
         IN  shorter \cup {<<c>> \o s : c \in chars, s \in {x \in shorter : Len(x) = n - 1}}

Remainders == StringsUpTo(ValueChars, MaxValueLen) \cup {StrTrue, StrFalse, StrNull}

CastTags == {CastNumber, CastString, CastBoolean}

RawValues == Remainders \cup {tag \o x : tag \in CastTags, x \in Remainders}

NoCall == [t |-> "none"]

InitValue ==
    /\ pc = "value"
    /\ raw \in RawValues
    /\ value = Undefined
    /\ ns = <<>> /\ delimiter = <<>> /\ src = NoCall /\ fs = NoCall
    /\ vals = <<>> /\ config = Undefined /\ outcome = NoCall /\ flat = <<>>
    /\ env = <<>> /\ checked = NoCall

\* nativize(raw)
Nativize ==
    /\ pc = "value"
    /\ value' = nativize(raw)
    /\ pc' = "nativized"
    /\ UNCHANGED <<ns, delimiter, src, fs, vals, config, outcome, raw, flat, env, checked>>

\* interpret(): const cast = ...; const value = ...
CastValue ==
    /\ pc = "value"
    /\ value' = castValue(raw)
    /\ pc' = "cast"
    /\ UNCHANGED <<ns, delimiter, src, fs, vals, config, outcome, raw, flat, env, checked>>

NextValue == Nativize \/ CastValue

SpecValue == InitValue /\ [][NextValue]_vars

\* The raw value begins with one of the three cast tags.
HasCastTag(v) == \E tag \in CastTags : StartsWith(v, tag)

\* v is exactly the string form of a base-10 integer: "0", or an optional "-"
\* and digits with no leading zero.
IsIntegerString(v) ==
    LET body == IF v # <<>> /\ v[1] = "-" THEN Tail(v) ELSE v
    IN  /\ body # <<>>
        /\ \A i \in 1..Len(body) : body[i] \in Digits
        /\ body[1] # "0" \/ v = <<"0">>

IntegerOf(v) ==
    IF v[1] = "-" THEN 0 - DecValue(Tail(v)) ELSE DecValue(v)

\* C5: for every raw value without cast syntax, native inference yields a
\* number if and only if the value is exactly the string form of a base-10
\* integer (and then that integer); otherwise "true", "false" and "null" yield
\* true, false and null, and every other value is returned as the same string.
C5_NativeInference ==
    (pc \in {"nativized", "cast"} /\ ~HasCastTag(raw)) =>
        IF IsIntegerString(raw) THEN value = Num(IntegerOf(raw))
        ELSE IF raw = StrTrue THEN value = Bool(TRUE)
        ELSE IF raw = StrFalse THEN value = Bool(FALSE)
        ELSE IF raw = StrNull THEN value = Null
        ELSE value = Str(raw)

\* C6: explicit cast syntax takes priority for every remainder X: <string>X
\* yields the literal string X, <number>X the numeric parse of X, <boolean>X
\* the boolean coercion of the native inference of X.
C6_ExplicitCast ==
    pc = "cast" =>
        /\ StartsWith(raw, CastString) => value = Str(Drop(raw, Len(CastString)))
        /\ StartsWith(raw, CastNumber) => value = Number(Drop(raw, Len(CastNumber)))
        /\ StartsWith(raw, CastBoolean) =>
               value = Boolean(nativize(Drop(raw, Len(CastBoolean))))

(***************************************************************************)
(* _configFromEnv on its own: one env-shaped source (the env map, or the   *)
(* map inflateSecretsDir returns), flattened and then interpreted.         *)
(***************************************************************************)

MaxKeys == 2

\* The (ns, delimiter) pairs of the calls: the default, and the pair of the
\* doc comment's example (ns ending in the delimiter "0").
EnvCalls == {[ns |-> <<"A", "_">>, delimiter |-> <<"_">>],
             [ns |-> <<"M", "0">>, delimiter |-> <<"0">>]}

SegmentsFor(delim) ==
    IF delim = <<"_">> THEN {<<"a">>, <<"b">>, <<"1">>}
    ELSE {<<"a", "_", "b">>, <<"b">>, <<"1">>}

\* Base names of one or two segments.
EnvBases(delim) ==
    SegmentsFor(delim)
        \cup {x \o delim \o y : x \in SegmentsFor(delim), y \in SegmentsFor(delim)}

VersionSuffixes == {<<>>, <<"_", "_", "2">>, <<"_", "_", "1", "0">>}

\* Keys of the namespace, a key of another namespace, and the bare namespace.
EnvKeys(call) ==
    {call.ns \o b \o sfx : b \in EnvBases(call.delimiter), sfx \in VersionSuffixes}
        \cup {<<"P">>, call.ns}

RawEnvValues == {<<"p">>, <<"7">>}

RECURSIVE SubsetsUpTo(_, _)
SubsetsUpTo(S, n) ==
    IF n = 0 THEN {{}}
    ELSE LET smaller == SubsetsUpTo(S, n - 1)
         IN  smaller \cup {T \cup {x} : T \in smaller, x \in S}

EnvMaps(call) ==
    UNION {[K -> RawEnvValues] : K \in SubsetsUpTo(EnvKeys(call), MaxKeys)}

InitEnv ==
    /\ pc = "configFromEnv"
    /\ \E call \in EnvCalls :
          /\ ns = call.ns
          /\ delimiter = call.delimiter
          /\ env \in EnvMaps(call)
    /\ src = NoCall /\ checked = NoCall
    /\ flat = <<>>
    /\ outcome = NoCall
    /\ fs = NoCall /\ vals = <<>> /\ config = Undefined
    /\ raw = <<>> /\ value = Undefined

\* index.ts:151-160
Flatten ==
    /\ pc = "configFromEnv"
    /\ flat' = FlatOf(env, ns)
    /\ pc' = "interpret"
    /\ UNCHANGED <<ns, delimiter, src, fs, vals, config, outcome, raw, value, env, checked>>

\* index.ts:161
Interpret ==
    /\ pc = "interpret"
    /\ outcome' = interpret(flat, delimiter)
    /\ pc' = "done"
    /\ UNCHANGED <<ns, delimiter, src, fs, vals, config, raw, value, flat, env, checked>>

NextEnv == Flatten \/ Interpret

SpecEnv == InitEnv /\ [][NextEnv]_vars

\* The scalar leaves of a tree, each with its path from the root.
RECURSIVE Leaves(_)
Leaves(node) ==
    IF node.t = "object"
    THEN UNION {{<<<<k>> \o l[1], l[2]>> : l \in Leaves(node.kv[k])} : k \in DOMAIN node.kv}
    ELSE IF node.t = "array"
    THEN UNION {{<<<<NatToStr(j - 1)>> \o l[1], l[2]>> : l \in Leaves(node.el[j])} :
                  j \in 1..Len(node.el)}
    ELSE {<<<<>>, node>>}

\* The node of a tree at a path (Undefined: there is none).
RECURSIVE NodeAt(_, _)
NodeAt(node, path) ==
    IF path = <<>> THEN node
    ELSE IF node.t = "object" /\ path[1] \in DOMAIN node.kv
    THEN NodeAt(node.kv[path[1]], Tail(path))
    ELSE IF node.t = "array" /\ IsArrayIndex(path[1]) /\ parseInt(path[1]).n < Len(node.el)
    THEN NodeAt(node.el[parseInt(path[1]).n + 1], Tail(path))
    ELSE Undefined

IsProperPrefix(p, q) == Len(p) < Len(q) /\ SubSeq(q, 1, Len(p)) = p

FlatPaths == {Split(flat[j][1], delimiter) : j \in 1..Len(flat)}

\* The version suffix of a matching raw key, and its number.
SuffixOf(key) == Drop(key, Len(ns) + Len(BaseName(key, ns)))
VersionOf(key) == DecValue(Drop(SuffixOf(key), 2))

FlatValue(nm) == LET j == CHOOSE j \in 1..Len(flat) : flat[j][1] = nm IN flat[j][2]

\* C2: within one env-shaped source, of two namespace-matching raw keys that
\* differ only in their __NNN suffix, the value resolved for the base key is
\* that of the key with the numerically greater suffix, whatever the widths.
C2_GreaterVersionWins ==
    pc \in {"interpret", "done"} =>
        \A k1 \in DOMAIN env, k2 \in DOMAIN env :
            ( /\ KeyMatches(k1, ns) /\ KeyMatches(k2, ns)
              /\ BaseName(k1, ns) = BaseName(k2, ns)
              /\ SuffixOf(k1) # <<>> /\ SuffixOf(k2) # <<>>
              /\ VersionOf(k1) < VersionOf(k2)
              /\ \A k \in DOMAIN env \ {k1, k2} :
                     ~(KeyMatches(k, ns) /\ BaseName(k, ns) = BaseName(k1, ns)) )
            => FlatValue(BaseName(k1, ns)) = env[k2]

\* The precondition of C3 on the keys interpret() is given.
PrefixFreeNoIndex ==
    /\ \A p \in FlatPaths, q \in FlatPaths : ~IsProperPrefix(p, q)
    /\ \A p \in FlatPaths : \A i \in 1..Len(p) : ~IsArrayIndex(p[i])

C4_ArrayInflation ==
    (pc = "done" /\ outcome.t = "return") =>
        \A p \in FlatPaths : \A i \in 1..(Len(p) - 1) :
            ( /\ \A q \in FlatPaths :
                     (Len(q) > i /\ SubSeq(q, 1, i) = SubSeq(p, 1, i)) => IsArrayIndex(q[i + 1])
              /\ \A q \in FlatPaths : ~IsProperPrefix(q, p) )
            => NodeAt(outcome.v, SubSeq(p, 1, i)).t = "array"

(***************************************************************************)
(* config(): one call, from the reading of the four sources to the return  *)
(* or the throw.                                                           *)
(***************************************************************************)

KeyA == <<"a">>
KeyB == <<"b">>

\* The trees a JSON file holds, with leaf l.
FileTrees(l) ==
    {EmptyObj,
     Obj([k \in {KeyA} |-> l]),
     Obj([k \in {KeyA} |-> Obj([j \in {KeyB} |-> l])]),
     Obj([k \in {KeyA, KeyB} |-> IF k = KeyA THEN Obj([j \in {KeyB} |-> l]) ELSE l])}

\* A text JSON.parse refuses.
MalformedText == <<"{", "\"", "a", "\"", ":">>

FileTexts(l) == {Stringify(tr, 0, 0) : tr \in FileTrees(l)} \cup {MalformedText}

NoFile == [exists |-> FALSE, text |-> <<>>]
File(text) == [exists |-> TRUE, text |-> text]
NoDir == [exists |-> FALSE, files |-> <<>>]
Dir(files) == [exists |-> TRUE, files |-> files]

\* The path given for a file, and the file: unset, missing, or present.
FileOptions(path, l) ==
    {<<Unset, NoFile>>, <<path, NoFile>>} \cup {<<path, File(x)>> : x \in FileTexts(l)}

SecretsPath == "/secrets"

\* Raw keys of the namespace "A_" (two of them collide on the node a).
ConfigKeys == {<<"A", "_", "a">>, <<"A", "_", "b">>, <<"A", "_", "a", "_", "b">>}
SecretNames == {<<"A", "_", "a">>, <<"A", "_", "a", "_", "b">>}

KeyedMaps(keys, text) == {[k \in K |-> text] : K \in SubsetsUpTo(keys, MaxKeys)}

\* secretsDir, the directory it names, and the files of the working directory.
SecretsOptions ==
    {<<Unset, NoDir, <<>>>>, <<SecretsPath, NoDir, <<>>>>}
        \cup {<<Cwd, NoDir, w>> : w \in KeyedMaps(SecretNames, <<"5">>)}
        \cup {<<SecretsPath, Dir(d), w>> :
                d \in KeyedMaps(SecretNames, <<"3">>), w \in KeyedMaps(SecretNames, <<"5">>)}

EnvUnset == [set |-> FALSE, map |-> <<>>]
EnvOptions == {EnvUnset} \cup {[set |-> TRUE, map |-> m] : m \in KeyedMaps(ConfigKeys, <<"4">>)}

Init ==
    /\ pc = "defaults"
    /\ ns = <<"A", "_">>
    /\ delimiter = <<"_">>
    /\ \E d \in FileOptions(DefaultsPath, Num(1)), l \in FileOptions(LocalsPath, Num(2)),
          sd \in SecretsOptions, e \in EnvOptions :
          /\ src = [defaultsFile |-> d[1], localsFile |-> l[1], secretsDir |-> sd[1], env |-> e]
          /\ fs = [defaults |-> d[2], locals |-> l[2], secrets |-> sd[2], cwd |-> sd[3]]
    /\ vals = <<>>
    /\ config = Undefined
    /\ outcome = NoCall
    /\ checked = NoCall
    /\ env = <<>>
    /\ raw = <<>> /\ value = Undefined /\ flat = <<>>

\* A source evaluated to r: its tree joins vals, or the call ends with the throw.
SourceDone(r, next) ==
    IF r.t = "throw"
    THEN pc' = "failed" /\ outcome' = r /\ UNCHANGED vals
    ELSE pc' = next /\ vals' = Append(vals, r.v) /\ UNCHANGED outcome

\* index.ts:96-98
ReadDefaults ==
    /\ pc = "defaults"
    /\ SourceDone(FileSource(src.defaultsFile), "locals")
    /\ UNCHANGED <<ns, delimiter, src, fs, config, raw, value, flat, env, checked>>

\* index.ts:99-101
ReadLocals ==
    /\ pc = "locals"
    /\ SourceDone(FileSource(src.localsFile), "secrets")
    /\ UNCHANGED <<ns, delimiter, src, fs, config, raw, value, flat, env, checked>>

\* index.ts:102: the condition of the secrets source.
SecretsPresent == src.secretsDir # Unset /\ ExistsSync(src.secretsDir)

\* index.ts:103: inflateSecretsDir(src.secretsDir)
InflateSecretsDir ==
    /\ pc = "secrets"
    /\ SecretsPresent
    /\ LET r == inflateSecretsDir(src.secretsDir)
       IN  IF r.t = "throw"
           THEN pc' = "failed" /\ outcome' = r /\ UNCHANGED env
           ELSE pc' = "secretsEnv" /\ env' = r.v /\ UNCHANGED outcome
    /\ UNCHANGED <<ns, delimiter, src, fs, vals, config, raw, value, flat, checked>>

\* index.ts:103: _configFromEnv(..., ns, delimiter) of the inflated directory
SecretsFromEnv ==
    /\ pc = "secretsEnv"
    /\ SourceDone(configFromEnv(env, ns, delimiter), "env")
    /\ UNCHANGED <<ns, delimiter, src, fs, config, raw, value, flat, env, checked>>

\* index.ts:104
SkipSecrets ==
    /\ pc = "secrets"
    /\ ~SecretsPresent
    /\ SourceDone(Return(EmptyObj), "env")
    /\ UNCHANGED <<ns, delimiter, src, fs, config, raw, value, flat, env, checked>>

\* index.ts:105
ReadEnv ==
    /\ pc = "env"
    /\ SourceDone(IF src.env.set THEN configFromEnv(src.env.map, ns, delimiter)
                  ELSE Return(EmptyObj), "merge")
    /\ UNCHANGED <<ns, delimiter, src, fs, config, raw, value, flat, env, checked>>

\* index.ts:109
Merge ==
    /\ pc = "merge"
    /\ config' = MergeAll(vals)
    /\ pc' = "check"
    /\ UNCHANGED <<ns, delimiter, src, fs, vals, outcome, raw, value, flat, env, checked>>

\* What a validator's check may return: the config itself, or another value.
CheckResults == {config, Obj([k \in {KeyA} |-> Str(<<"t">>)])}

StrBad == <<"b", "a", "d">>

\* What a validator's check may throw: ValidationErrors with and without a key
\* and details, another error object, a string, null and undefined.
ThrownValues ==
    {Thrown(Str(StrValidationError), Str(StrBad), k, d) :
        k \in {Undefined, Str(<<"a", ".", "b">>)},
        d \in {Undefined, Obj([j \in {KeyA} |-> Obj([i \in {KeyB} |-> Str(StrBad)])])}}
    \cup {Thrown(Str(<<"E", "r", "r", "o", "r">>), Str(StrBad), Undefined, Undefined),
          Thrown(Undefined, Undefined, Undefined, Undefined),
          Str(StrBad), Null, Undefined}

\* index.ts:113: validator.check(config) returns
CheckReturns ==
    /\ pc = "check"
    /\ \E r \in CheckResults :
          /\ checked' = Return(r)
          /\ outcome' = Return([config |-> r])
    /\ pc' = "done"
    /\ UNCHANGED <<ns, delimiter, src, fs, vals, config, raw, value, flat, env>>

\* index.ts:114-123: validator.check(config) throws
CheckThrows ==
    /\ pc = "check"
    /\ \E e \in ThrownValues :
          /\ checked' = Throw(e)
          /\ outcome' = CatchBlock(e)
    /\ pc' = "done"
    /\ UNCHANGED <<ns, delimiter, src, fs, vals, config, raw, value, flat, env>>

Next ==
    \/ ReadDefaults \/ ReadLocals
    \/ InflateSecretsDir \/ SecretsFromEnv \/ SkipSecrets
    \/ ReadEnv \/ Merge \/ CheckReturns \/ CheckThrows

Spec == Init /\ [][Next]_vars

(***************************************************************************)
(* Properties of config()                                                  *)
(***************************************************************************)

Sources == {"defaults", "locals", "secrets", "env"}

\* index.ts:95-106: the position of each source's tree in vals.
SourceTree(s) ==
    CASE s = "defaults" -> vals[1] [] s = "locals" -> vals[2]
      [] s = "secrets" -> vals[3] [] s = "env" -> vals[4]

IsScalar(node) == node.t \in {"number", "string", "boolean", "null"}

\* Source s supplies a scalar at path p.
Supplies(s, p) == IsScalar(NodeAt(SourceTree(s), p))

\* Source s has a node at p, or a scalar above p.
Touches(s, p) ==
    \/ NodeAt(SourceTree(s), p).t # "undefined"
    \/ \E i \in 1..(Len(p) - 1) : IsScalar(NodeAt(SourceTree(s), SubSeq(p, 1, i)))

SuppliedPaths == UNION {{l[1] : l \in Leaves(SourceTree(s))} : s \in Sources}

\* The tree handed to validator.check exists.
Merged == pc \in {"check", "done"}

\* The precedence defaults < locals < secrets < env.
RankEnvLast(s) ==
    CASE s = "defaults" -> 1 [] s = "locals" -> 2 [] s = "secrets" -> 3 [] s = "env" -> 4

Highest(S) == CHOOSE s \in S : \A u \in S : RankEnvLast(u) <= RankEnvLast(s)

C7_SecretsDirEntries ==
    /\ pc = "secretsEnv" => env = DirEntries(src.secretsDir)
    /\ (pc = "failed" /\ Len(vals) = 2 /\ SecretsPresent) => outcome.e # ENOENT

\* C8: sources combine as defaults < locals < env < secrets: a key supplied by
\* both env and a file of secretsDir holds the secretsDir value.
C8_SecretsOverrideEnv ==
    Merged =>
        \A p \in SuppliedPaths :
            (Supplies("secrets", p) /\ Supplies("env", p))
                => NodeAt(config, p) = NodeAt(SourceTree("secrets"), p)

Contains(s, sub) == FirstAt(s, sub, 1) # 0

IsValidationFailure(e) == e.t = "thrown" /\ e.name = Str(StrValidationError)

\* C9: a validation failure is re-raised as one error whose message contains
\* the failure's key (when it carries one), its message and its pretty-printed
\* details (when it carries them); any other thrown value is propagated
\* unchanged; a returned value is the config field of the result.
C9_ValidationOutcome ==
    pc = "done" =>
        IF checked.t = "return" THEN outcome = Return([config |-> checked.v])
        ELSE IF IsValidationFailure(checked.e)
        THEN /\ outcome.t = "throw"
             /\ outcome.e.t = "error"
             /\ outcome.e.name = "Error"
             /\ Contains(outcome.e.message, checked.e.message.s)
             /\ checked.e.key.t = "string" =>
                    Contains(outcome.e.message, checked.e.key.s)
             /\ checked.e.details.t = "object" =>
                    Contains(outcome.e.message, Stringify(checked.e.details, 2, 0))
        ELSE outcome = Throw(checked.e)

\* The j-th source of vals is unset or names a path that does not exist.
Absent(j) ==
    CASE j = 1 -> src.defaultsFile = Unset \/ ~ExistsSync(src.defaultsFile)
      [] j = 2 -> src.localsFile = Unset \/ ~ExistsSync(src.localsFile)
      [] j = 3 -> src.secretsDir = Unset \/ ~ExistsSync(src.secretsDir)
      [] j = 4 -> ~src.env.set

MergeIfPresent(acc, j) == IF Absent(j) THEN acc ELSE deepmerge2(acc, vals[j])

\* The merge of the sources that are present, in the order of vals.
MergePresent ==
    MergeIfPresent(MergeIfPresent(MergeIfPresent(MergeIfPresent(EmptyObj, 1), 2), 3), 4)

\* C10: a source that is unset or names a missing path contributes an empty
\* structure and causes no error: the merged tree is the merge of the sources
\* that are present, and the empty object when all four are absent.
C10_AbsentSources ==
    /\ \A j \in 1..Len(vals) : Absent(j) => vals[j] = EmptyObj
    /\ pc = "failed" => ~Absent(Len(vals) + 1)
    /\ Merged => config = MergePresent
    /\ (Merged /\ \A j \in 1..4 : Absent(j)) => config = EmptyObj

\* C10's case: defaultsFile and secretsDir name missing paths, localsFile is
\* unset, env is present, and validator.check returned.
C10_Witness ==
    /\ pc = "done" /\ checked.t = "return"
    /\ src.defaultsFile # Unset /\ Absent(1)
    /\ src.localsFile = Unset
    /\ src.secretsDir # Unset /\ Absent(3)
    /\ src.env.set /\ config # EmptyObj
    /\ config = vals[4]

=============================================================================
